---- MODULE Spec2Model ----
(***************************************************************************)
(* Password generator (src/script.js): the random selector                 *)
(* (secureRandomInt), the password builder (buildCharPool, generatePlain), *)
(* the strength estimator (estimateEntropyBits, strengthFromEntropy) and   *)
(* the event handlers that drive them (generateHandler, the history click  *)
(* handlers, the length inputs, the scramble-reveal animation frames).     *)
(*                                                                         *)
(* Strings are sequences of one-character strings.  The 32-bit word of     *)
(* crypto.getRandomValues is scaled to WordBits bits (TLC's integers are   *)
(* 32-bit, so 2^32 itself is out of reach); every formula of the selector  *)
(* is written in terms of maxUint, as the source is.                       *)
(***************************************************************************)
EXTENDS Integers, Sequences, FiniteSets

VARIABLES
  cryptoAvailable,  \* window.crypto && window.crypto.getRandomValues
  rngPc,            \* position of a direct secureRandomInt call
  rngRange,         \* its argument
  rand,             \* its last 32-bit draw (arr[0])
  rngResult,        \* its return value
  optUpper, optLower, optNumbers, optSymbols, optExclude,  \* checkboxes
  lengthNumber,     \* lengthNumber.value
  lengthRange,      \* lengthRange.value
  passwordInput,    \* passwordInput.value
  lastGenerated,    \* let lastGenerated
  history,          \* let history
  strength,         \* what updateStrengthUI last displayed
  frames,           \* pending requestAnimationFrame callbacks, in order,
                    \* each with the time since its animation started
  alerts,           \* alert() dialogs generateHandler has shown
  runs,             \* ghost: runs of generateHandler
  uiPc,             \* "loading" until DOMContentLoaded ran init
  steps,            \* events and animation frames handled since init
  historyPool,      \* ghost: for each history entry, the number of distinct
                    \*        symbols of the pool it was drawn from
  strengthOf,       \* ghost: the password the strength is displayed for,
                    \*        and the same number for it
  latestWrite,      \* ghost: value the latest generation/selection wrote
  plainPc,          \* position of a direct generatePlain call
  plainLength,      \* its argument
  plainResult       \* its return value, or the message of its error

rngVars == <<rngPc, rngRange, rand, rngResult>>
optVars == <<optUpper, optLower, optNumbers, optSymbols, optExclude>>
uiVars == <<lengthNumber, lengthRange, passwordInput, lastGenerated, history,
            strength, frames, alerts, runs, uiPc, steps,
            historyPool, strengthOf, latestWrite>>
plainVars == <<plainPc, plainLength, plainResult>>
vars == <<cryptoAvailable, rngVars, optVars, uiVars, plainVars>>

(***************************************************************************)
(* Bounds of the model.                                                    *)
(***************************************************************************)
WordBits == 7        \* width the 32-bit random word is scaled to
MaxNegRange == 2     \* direct calls try ranges down to -MaxNegRange
MaxSteps == 2        \* events and animation frames handled after init
MaxHistorySteps == 10 \* events handled after init in a long session
MaxPending == 1      \* animations pending when Enter starts another one
MaxPlainLength == 7  \* direct generatePlain calls try lengths 0..MaxPlainLength

(***************************************************************************)
(* Constants of the program.                                               *)
(***************************************************************************)
CHAR_upper ==
  << "A", "B", "C", "D", "E", "F", "G", "H", "I", "J", "K", "L", "M",
     "N", "O", "P", "Q", "R", "S", "T", "U", "V", "W", "X", "Y", "Z" >>

CHAR_lower ==
  << "a", "b", "c", "d", "e", "f", "g", "h", "i", "j", "k", "l", "m",
     "n", "o", "p", "q", "r", "s", "t", "u", "v", "w", "x", "y", "z" >>

CHAR_numbers ==
  << "0", "1", "2", "3", "4", "5", "6", "7", "8", "9" >>

CHAR_symbols ==
  << "!", "@", "#", "$", "%", "^", "&", "*", "(", ")", "_", "+", "[",
     "]", "{", "}", "|", ";", ":", ",", ".", "<", ">", "?" >>

RECURSIVE Pow2(_)
Pow2(n) == IF n = 0 THEN 1 ELSE 2 * Pow2(n - 1)

maxUint == Pow2(WordBits) - 1

Words == 0..maxUint

(***************************************************************************)
(* secureRandomInt                                                         *)
(***************************************************************************)
bucketSize(range) == (maxUint + 1) \div range

limit(range) == bucketSize(range) * range

RejectedAboveLimit(r, range) == r > limit(range)

\* the do-while condition: the draw is discarded and redrawn
Rejected(r, range) == r >= limit(range)

FallbackIntRounded(u, range) ==
  (2 * u * range + maxUint + 1) \div (2 * (maxUint + 1))

\* Math.floor(Math.random() * range), Math.random() being u / 2^WordBits
FallbackInt(u, range) == (u * range) \div (maxUint + 1)

\* the function's first statement: which path a call takes
secureRandomIntPath(crypto, range) ==
  IF ~crypto THEN "fallback"
  ELSE IF range <= 0 THEN "throw"
  ELSE "sample"

RangeInputs == (0 - MaxNegRange)..(maxUint + 2)

secureRandomIntCall ==
  /\ rngPc = "idle"
  /\ \E range \in RangeInputs :
       /\ rngRange' = range
       /\ LET path == secureRandomIntPath(cryptoAvailable, range) IN
          \/ /\ path = "fallback"
             /\ \E u \in Words :
                  /\ rngResult' = FallbackInt(u, range)
                  /\ rand' = u
             /\ rngPc' = "returned"
          \/ /\ path = "throw"
             /\ rngPc' = "thrown"
             /\ UNCHANGED <<rand, rngResult>>
          \/ /\ path = "sample"
             /\ rngPc' = "sampling"
             /\ UNCHANGED <<rand, rngResult>>
  /\ UNCHANGED <<cryptoAvailable, optVars, uiVars, plainVars>>

secureRandomIntDraw ==
  /\ rngPc \in {"sampling", "redraw"}
  /\ \E w \in Words :
       /\ rand' = w
       /\ \/ /\ Rejected(w, rngRange)
             /\ rngPc' = "redraw"
             /\ UNCHANGED rngResult
          \/ /\ ~Rejected(w, rngRange)
             /\ rngResult' = w % rngRange
             /\ rngPc' = "returned"
  /\ UNCHANGED <<cryptoAvailable, rngRange, optVars, uiVars, plainVars>>

secureRandomIntExit ==
  /\ rngPc \in {"returned", "thrown"}
  /\ rngPc' = "idle"
  /\ rngRange' = 1      \* the call's locals go out of scope
  /\ rand' = 0
  /\ rngResult' = "none"
  /\ UNCHANGED <<cryptoAvailable, optVars, uiVars, plainVars>>

(***************************************************************************)
(* The random source as the callers below see it: a call of                *)
(* getRandomValues (or Math.random) reads the next word of a stream; the   *)
(* model enumerates the streams of Seeds.                                  *)
(***************************************************************************)
Seeds == {0, 5}

Word(seed, i) == (seed + 37 * i) % (maxUint + 1)

\* secureRandomInt reading the stream from position i: the value returned
\* and the position after the call
RECURSIVE secureRandomInt(_, _, _, _)
secureRandomInt(crypto, range, seed, i) ==
  LET path == secureRandomIntPath(crypto, range) IN
  IF path = "fallback"
    THEN [value |-> FallbackInt(Word(seed, i), range), next |-> i + 1]
  ELSE IF path = "throw"
    THEN [value |-> -1, next |-> i]
  ELSE IF Rejected(Word(seed, i), range)
    THEN secureRandomInt(crypto, range, seed, i + 1)
  ELSE [value |-> Word(seed, i) % range, next |-> i + 1]

(***************************************************************************)
(* buildCharPool, generatePlain                                            *)
(***************************************************************************)
AMBIGUOUS_similar == {"O", "0", "I", "l", "1"}

AMBIGUOUS == {"O", "0", "I", "l"}

KeptByReplace(c) == c \notin AMBIGUOUS

\* pool.replace(AMBIGUOUS, ''): every match of the global regex is dropped
replaceAmbiguous(str) == SelectSeq(str, KeptByReplace)

buildCharPoolNoSymbols(upper, lower, numbers, symbols, exclude) ==
  LET pool == (IF upper THEN CHAR_upper ELSE <<>>)
                \o (IF lower THEN CHAR_lower ELSE <<>>)
                \o (IF numbers THEN CHAR_numbers ELSE <<>>)
  IN  IF exclude THEN replaceAmbiguous(pool) ELSE pool

buildCharPool(upper, lower, numbers, symbols, exclude) ==
  LET pool == (IF upper THEN CHAR_upper ELSE <<>>)
                \o (IF lower THEN CHAR_lower ELSE <<>>)
                \o (IF numbers THEN CHAR_numbers ELSE <<>>)
                \o (IF symbols THEN CHAR_symbols ELSE <<>>)
  IN  IF exclude THEN replaceAmbiguous(pool) ELSE pool

\* buildCharPool() on the checkboxes as they are now
currentPool ==
  buildCharPool(optUpper, optLower, optNumbers, optSymbols, optExclude)

charAtOneBased(str, idx) ==
  IF idx \in 1..Len(str) THEN <<str[idx]>> ELSE <<>>

\* str.charAt(idx): '' outside the string
charAt(str, idx) ==
  IF idx \in 0..(Len(str) - 1) THEN <<str[idx + 1]>> ELSE <<>>

\* the for loop of generatePlain and out.join(''): `count` characters drawn
\* one after the other from stream position pos (evaluated in two halves,
\* the second starting where the first stopped)
RECURSIVE drawChars(_, _, _, _, _)
drawChars(crypto, pool, count, seed, pos) ==
  IF count = 0 THEN [chars |-> <<>>, next |-> pos]
  ELSE IF count = 1
    THEN LET d == secureRandomInt(crypto, Len(pool), seed, pos)
         IN  [chars |-> charAt(pool, d.value), next |-> d.next]
  ELSE LET a == drawChars(crypto, pool, count \div 2, seed, pos)
           b == drawChars(crypto, pool, count - (count \div 2), seed, a.next)
       IN  [chars |-> a.chars \o b.chars, next |-> b.next]

\* JavaScript numbers: an integer, or NaN
NaN == [nan |-> TRUE, n |-> 0]

Num(k) == [nan |-> FALSE, n |-> k]

\* generatePlain(length) with the pool buildCharPool() returns at the call
generatePlain(crypto, pool, length, seed) ==
  IF pool = <<>>
    THEN [ok |-> FALSE, error |-> "No character sets selected", value |-> <<>>]
  ELSE IF length.nan \/ length.n < 0      \* new Array(length) throws
    THEN [ok |-> FALSE, error |-> "Invalid array length", value |-> <<>>]
  ELSE [ok |-> TRUE, error |-> "",
        value |-> drawChars(crypto, pool, length.n, seed, 0).chars]

NoResult == [ok |-> TRUE, error |-> "", value |-> <<>>]

\* a click on one of the five checkboxes
ToggleOption(k) ==
  /\ optUpper' = IF k = 1 THEN ~optUpper ELSE optUpper
  /\ optLower' = IF k = 2 THEN ~optLower ELSE optLower
  /\ optNumbers' = IF k = 3 THEN ~optNumbers ELSE optNumbers
  /\ optSymbols' = IF k = 4 THEN ~optSymbols ELSE optSymbols
  /\ optExclude' = IF k = 5 THEN ~optExclude ELSE optExclude

(***************************************************************************)
(* The length inputs: parseInt, String(number), ||, Math.min, Math.max     *)
(***************************************************************************)
Digits == << "0", "1", "2", "3", "4", "5", "6", "7", "8", "9" >>

IsDigit(c) == \E d \in 1..10 : Digits[d] = c

DigitValue(c) == (CHOOSE d \in 1..10 : Digits[d] = c) - 1

\* the value of the longest prefix of digits of str, after acc
RECURSIVE digitsValue(_, _)
digitsValue(str, acc) ==
  IF str = <<>> \/ ~IsDigit(Head(str)) THEN acc
  ELSE digitsValue(Tail(str), 10 * acc + DigitValue(Head(str)))

\* parseInt(text): an optional sign, then the longest prefix of digits; NaN
\* when there is no digit (texts here carry no leading white space)
parseInt(text) ==
  LET signed == text # <<>> /\ Head(text) \in {"-", "+"}
      body == IF signed THEN Tail(text) ELSE text
  IN  IF body = <<>> \/ ~IsDigit(Head(body)) THEN NaN
      ELSE IF signed /\ Head(text) = "-" THEN Num(0 - digitsValue(body, 0))
      ELSE Num(digitsValue(body, 0))

RECURSIVE natToText(_)
natToText(k) ==
  IF k < 10 THEN <<Digits[k + 1]>>
  ELSE natToText(k \div 10) \o <<Digits[(k % 10) + 1]>>

\* String(x), as an assignment to input.value converts a number
toText(x) ==
  IF x.nan THEN <<"N", "a", "N">>
  ELSE IF x.n < 0 THEN <<"-">> \o natToText(0 - x.n)
  ELSE natToText(x.n)

\* a || b on numbers: 0 and NaN are falsy
Or(a, b) == IF a.nan \/ a.n = 0 THEN b ELSE a

MathMin(a, b) == IF a.nan \/ b.nan THEN NaN ELSE IF a.n < b.n THEN a ELSE b

MathMax(a, b) == IF a.nan \/ b.nan THEN NaN ELSE IF a.n > b.n THEN a ELSE b

clampedLengthNoFloor(numberText, rangeText) ==
  MathMin(Num(64), Or(parseInt(numberText), parseInt(rangeText)))

\* generateHandler: Math.max(6, Math.min(64, parseInt(lengthNumber.value)
\*                                          || parseInt(lengthRange.value)))
clampedLength(numberText, rangeText) ==
  MathMax(Num(6),
          MathMin(Num(64), Or(parseInt(numberText), parseInt(rangeText))))

\* what a user leaves in the number field before any change event
NumberTexts ==
  { <<>>, <<"0">>, <<"-", "3">>, <<"1", "0">>, <<"7", "0">> }

\* positions of the slider
RangeTexts == { <<"3">>, <<"1", "0", "0">> }

(***************************************************************************)
(* estimateEntropyBits, strengthFromEntropy.  An entropy L * log2(P) is    *)
(* kept as the pair (L, P); bits < T is P^L < 2^T, computed on 80-bit      *)
(* numbers of eight 10-bit limbs that saturate at 2^80, the largest        *)
(* threshold.                                                              *)
(***************************************************************************)
LimbBase == Pow2(10)

Saturated == [sat |-> TRUE, l |-> <<0, 0, 0, 0, 0, 0, 0, 0>>]

BigOne == [sat |-> FALSE, l |-> <<1, 0, 0, 0, 0, 0, 0, 0>>]

\* a number below 2^10
Small(p) == [sat |-> FALSE, l |-> <<p, 0, 0, 0, 0, 0, 0, 0>>]

\* sum of a[i] * b[k + 1 - i] for i in 1..n
RECURSIVE Convolve(_, _, _, _)
Convolve(a, b, k, n) ==
  IF n = 0 THEN 0 ELSE a[n] * b[k + 1 - n] + Convolve(a, b, k, n - 1)

\* x * y for x, y >= 1, saturating at 2^80
MulBig(x, y) ==
  IF x.sat \/ y.sat THEN Saturated
  ELSE IF \E i, j \in 1..8 : i + j > 9 /\ x.l[i] # 0 /\ y.l[j] # 0
    THEN Saturated
  ELSE LET v1 == Convolve(x.l, y.l, 1, 1)
           v2 == Convolve(x.l, y.l, 2, 2) + (v1 \div LimbBase)
           v3 == Convolve(x.l, y.l, 3, 3) + (v2 \div LimbBase)
           v4 == Convolve(x.l, y.l, 4, 4) + (v3 \div LimbBase)
           v5 == Convolve(x.l, y.l, 5, 5) + (v4 \div LimbBase)
           v6 == Convolve(x.l, y.l, 6, 6) + (v5 \div LimbBase)
           v7 == Convolve(x.l, y.l, 7, 7) + (v6 \div LimbBase)
           v8 == Convolve(x.l, y.l, 8, 8) + (v7 \div LimbBase)
       IN  IF v8 \div LimbBase > 0 THEN Saturated
           ELSE [sat |-> FALSE,
                 l |-> <<v1 % LimbBase, v2 % LimbBase, v3 % LimbBase,
                         v4 % LimbBase, v5 % LimbBase, v6 % LimbBase,
                         v7 % LimbBase, v8 % LimbBase>>]

\* p^e for 1 <= p < 2^10, saturating at 2^80
RECURSIVE PowCapped(_, _)
PowCapped(p, e) ==
  IF e = 0 THEN BigOne
  ELSE IF e = 1 THEN Small(p)
  ELSE LET h == PowCapped(p, e \div 2)
           sq == MulBig(h, h)
       IN  IF e % 2 = 0 THEN sq ELSE MulBig(sq, Small(p))

\* x < 2^t, for 0 <= t <= 80
BelowPow2(x, t) ==
  /\ ~x.sat
  /\ t < 80 =>
       LET k == (t \div 10) + 1 IN
       /\ \A i \in (k + 1)..8 : x.l[i] = 0
       /\ x.l[k] < Pow2(t % 10)

\* bits < t
BitsBelow(bits, t) == BelowPow2(PowCapped(bits.P, bits.L), t)

ZeroBits == [L |-> 0, P |-> 1]

\* new Set(str).size
DistinctSymbols(str) == Cardinality({str[i] : i \in 1..Len(str)})

\* estimateEntropyBits(password), buildCharPool() returning pool
estimateEntropyBits(password, pool) ==
  LET poolSize == DistinctSymbols(pool) IN
  IF poolSize = 0 THEN ZeroBits
  ELSE [L |-> Len(password), P |-> poolSize]

strengthFromEntropySwapped(bits) ==
  LET x == PowCapped(bits.P, bits.L) IN
  IF BelowPow2(x, 28) THEN [label |-> "Very weak", pct |-> 20]
  ELSE IF BelowPow2(x, 60) THEN [label |-> "Moderate", pct |-> 60]
  ELSE IF BelowPow2(x, 40) THEN [label |-> "Weak", pct |-> 40]
  ELSE IF BelowPow2(x, 80) THEN [label |-> "Strong", pct |-> 80]
  ELSE [label |-> "Very strong", pct |-> 100]

\* strengthFromEntropy(bits): bits < t is P^L < 2^t
strengthFromEntropy(bits) ==
  LET x == PowCapped(bits.P, bits.L) IN
  IF BelowPow2(x, 28) THEN [label |-> "Very weak", pct |-> 20]
  ELSE IF BelowPow2(x, 40) THEN [label |-> "Weak", pct |-> 40]
  ELSE IF BelowPow2(x, 60) THEN [label |-> "Moderate", pct |-> 60]
  ELSE IF BelowPow2(x, 80) THEN [label |-> "Strong", pct |-> 80]
  ELSE [label |-> "Very strong", pct |-> 100]

\* updateStrengthUI(pw): the bar's width and the label's text
updateStrengthUI(pw, pool) ==
  LET bits == estimateEntropyBits(pw, pool)
      s == strengthFromEntropy(bits)
  IN  [shown |-> TRUE, label |-> s.label, pct |-> s.pct, bits |-> bits]

NoStrength == [shown |-> FALSE, label |-> "", pct |-> 0, bits |-> ZeroBits]

InitUi ==
  /\ lengthNumber = <<"1", "6">>
  /\ lengthRange = <<"1", "6">>
  /\ passwordInput = <<>>
  /\ lastGenerated = <<>>
  /\ history = <<>>
  /\ strength = NoStrength
  /\ frames = <<>>
  /\ alerts = 0
  /\ runs = 0
  /\ uiPc = "loading"
  /\ steps = 0
  /\ historyPool = <<>>
  /\ strengthOf = [pw |-> <<>>, symbols |-> 0]
  /\ latestWrite = <<>>

RngIdle ==
  /\ rngPc = "idle"
  /\ rngRange = 1
  /\ rand = 0
  /\ rngResult = "none"

PlainIdle ==
  /\ plainPc = "idle"
  /\ plainLength = 0
  /\ plainResult = NoResult

InitRng ==
  /\ cryptoAvailable \in BOOLEAN
  /\ RngIdle
  /\ optUpper = TRUE /\ optLower = TRUE /\ optNumbers = TRUE
  /\ optSymbols = TRUE /\ optExclude = FALSE
  /\ InitUi
  /\ PlainIdle

NextRng == secureRandomIntCall \/ secureRandomIntDraw \/ secureRandomIntExit

SpecRng == InitRng /\ [][NextRng]_vars

(***************************************************************************)
(* Claims about secureRandomInt, under SpecRng.                            *)
(***************************************************************************)

\* C1: for every range > 0, a call of secureRandomInt(range) that returns
\* yields an integer r with 0 <= r < range, on the crypto path and on the
\* Math.random fallback path alike.
C1_ResultInRange ==
  (rngPc = "returned" /\ rngRange > 0) =>
    (rngResult \in Int /\ 0 <= rngResult /\ rngResult < rngRange)

\* a fallback call that returned the largest value of its range
C1_Witness ==
  /\ rngPc = "returned"
  /\ ~cryptoAvailable
  /\ rngRange = 5
  /\ rngResult = 4

\* C2: the rejection step removes modulo bias exactly: for every range in
\* 1..maxUint+1, each result r in [0, range) is the image of exactly
\* floor((maxUint+1) / range) accepted draws, and a call that returned on
\* the crypto path accepted a draw below limit and returned it modulo
\* range.
C2_NoModuloBias ==
  /\ (rngPc = "sampling" /\ rngRange <= maxUint + 1) =>
       \A r \in 0..(rngRange - 1) :
         Cardinality({w \in Words :
                        ~Rejected(w, rngRange) /\ w % rngRange = r})
           = (maxUint + 1) \div rngRange
  /\ (rngPc = "returned" /\ cryptoAvailable) =>
       /\ rand < ((maxUint + 1) \div rngRange) * rngRange
       /\ rngResult = rand % rngRange

\* a call that accepted the largest draw below limit, for a range that does
\* not divide maxUint+1
C2_Witness ==
  /\ rngPc = "returned"
  /\ cryptoAvailable
  /\ rngRange = 3
  /\ rand = limit(3) - 1
  /\ limit(3) <= maxUint
  /\ rngResult = (limit(3) - 1) % 3

\* C3: secureRandomInt fails with InvalidRange whenever range <= 0, whether
\* or not the cryptographic source is available; it never returns a value
\* for such a range.
C3_InvalidRangeAlwaysThrows ==
  (rngPc \in {"returned", "thrown"} /\ rngRange <= 0) => rngPc = "thrown"

(***************************************************************************)
(* Direct calls of generatePlain (window.pwgen.generatePlain) between      *)
(* clicks on the checkboxes.                                               *)
(***************************************************************************)
InitPlain ==
  /\ cryptoAvailable \in BOOLEAN
  /\ RngIdle
  /\ optUpper \in BOOLEAN /\ optLower \in BOOLEAN /\ optNumbers \in BOOLEAN
  /\ optSymbols \in BOOLEAN /\ optExclude \in BOOLEAN
  /\ InitUi
  /\ PlainIdle

PlainToggle ==
  /\ plainPc = "idle"
  /\ \E k \in 1..5 : ToggleOption(k)
  /\ UNCHANGED <<cryptoAvailable, rngVars, uiVars, plainVars>>

generatePlainCall ==
  /\ plainPc = "idle"
  /\ \E n \in 0..MaxPlainLength, seed \in Seeds :
       LET r == generatePlain(cryptoAvailable, currentPool, Num(n), seed) IN
       /\ plainLength' = n
       /\ plainResult' = r
       /\ plainPc' = IF r.ok THEN "returned" ELSE "thrown"
  /\ UNCHANGED <<cryptoAvailable, rngVars, optVars, uiVars>>

generatePlainExit ==
  /\ plainPc \in {"returned", "thrown"}
  /\ plainPc' = "idle"
  /\ plainLength' = 0
  /\ plainResult' = NoResult
  /\ UNCHANGED <<cryptoAvailable, rngVars, optVars, uiVars>>

NextPlain == PlainToggle \/ generatePlainCall \/ generatePlainExit

SpecPlain == InitPlain /\ [][NextPlain]_vars

(***************************************************************************)
(* The page: init, generateHandler, the history list, the length inputs,   *)
(* the checkboxes and the animation frames of scrambleReveal.              *)
(***************************************************************************)

\* pushHistory without its capacity
pushHistoryNoPop(h, pw) ==
  IF pw = <<>> THEN h
  ELSE IF h # <<>> /\ h[1] = pw THEN h
  ELSE <<pw>> \o h

\* pushHistory(pw) on the list h
pushHistory(h, pw) ==
  IF pw = <<>> THEN h
  ELSE IF h # <<>> /\ h[1] = pw THEN h
  ELSE LET u == <<pw>> \o h
       IN  IF Len(u) > 8 THEN SubSeq(u, 1, Len(u) - 1) ELSE u

\* the ghost list beside it: x enters where pw enters h
pushBeside(h, pw, g, x) ==
  IF pw = <<>> THEN g
  ELSE IF h # <<>> /\ h[1] = pw THEN g
  ELSE LET u == <<x>> \o g
       IN  IF Len(u) > 8 THEN SubSeq(u, 1, Len(u) - 1) ELSE u

\* scrambleReveal(finalText, duration): the callback it registers; elapsed
\* is now - start, in ms
scrambleReveal(finalText, duration, pool) ==
  [finalText |-> finalText,
   elapsed |-> 0,
   duration |-> duration,
   pool |-> IF pool # <<>> THEN pool ELSE CHAR_lower \o CHAR_numbers]

\* t < 1 in frame(now)
Running(cb) == cb.elapsed < cb.duration

\* passwordInput.value after frame(now) of callback cb
frameText(cb, seed) ==
  IF Running(cb)
    THEN LET length == Len(cb.finalText)
             revealCount == (cb.elapsed * length) \div cb.duration
         IN  SubSeq(cb.finalText, 1, revealCount)
               \o drawChars(cryptoAvailable, cb.pool, length - revealCount,
                            seed, 0).chars
  ELSE cb.finalText

\* time between two animation frames, in ms
FrameDts == {350, 700}

\* streams the scramble of a frame reads
ScrambleSeeds == {0}

Later(cb, dt) == [cb EXCEPT !.elapsed = cb.elapsed + dt]

\* generateHandler(fastReveal), the random source reading stream seed
generateHandler(fastReveal, seed) ==
  LET length == clampedLength(lengthNumber, lengthRange)
      pool == currentPool
      r == generatePlain(cryptoAvailable, pool, length, seed)
      pw == r.value
  IN  /\ runs' = runs + 1
      /\ lengthRange' = toText(length)
      /\ lengthNumber' = toText(length)
      /\ IF r.ok
           THEN /\ lastGenerated' = pw
                /\ IF fastReveal
                     THEN passwordInput' = pw /\ frames' = frames
                     ELSE /\ passwordInput' = passwordInput
                          /\ frames' = Append(frames,
                                              scrambleReveal(pw, 700, pool))
                /\ strength' = updateStrengthUI(pw, pool)
                /\ history' = pushHistory(history, pw)
                /\ historyPool' = pushBeside(history, pw, historyPool,
                                             DistinctSymbols(pool))
                /\ strengthOf' = [pw |-> pw, symbols |-> DistinctSymbols(pool)]
                /\ latestWrite' = pw
                /\ alerts' = alerts
           ELSE /\ alerts' = alerts + 1      \* catch: Log.error, alert
                /\ UNCHANGED <<lastGenerated, passwordInput, frames, strength,
                               history, historyPool, strengthOf, latestWrite>>

\* DOMContentLoaded: init() wires the handlers and generates once
DOMContentLoaded ==
  /\ uiPc = "loading"
  /\ uiPc' = "ready"
  /\ \E seed \in Seeds : generateHandler(FALSE, seed)
  /\ UNCHANGED <<cryptoAvailable, rngVars, optVars, plainVars, steps>>

\* an event or an animation frame is handled: the page is ready, and the
\* model's budget
Event ==
  /\ uiPc = "ready"
  /\ steps < MaxSteps
  /\ steps' = steps + 1
  /\ UNCHANGED <<cryptoAvailable, rngVars, plainVars, uiPc>>

\* the browser runs the pending callbacks in the order they were requested;
\* one that is not finished requests the next frame
AnimationFrame ==
  /\ Event
  /\ frames # <<>>
  /\ \E dt \in FrameDts, seed \in ScrambleSeeds :
       LET at == [i \in 1..Len(frames) |-> Later(frames[i], dt)] IN
       /\ passwordInput' = frameText(at[Len(at)], seed)
       /\ frames' = SelectSeq(at, Running)
  /\ UNCHANGED <<optVars, lengthNumber, lengthRange, lastGenerated, history,
                 strength, alerts, runs, historyPool, strengthOf,
                 latestWrite>>

\* click on Generate, or the Enter key
GenerateClick ==
  /\ Event
  /\ \E seed \in Seeds : generateHandler(FALSE, seed)
  /\ UNCHANGED optVars

\* click on Regenerate
RegenerateClick ==
  /\ Event
  /\ \E seed \in Seeds : generateHandler(TRUE, seed)
  /\ UNCHANGED optVars

\* click on a history item
HistoryItemClick ==
  /\ Event
  /\ \E i \in 1..Len(history) :
       /\ passwordInput' = history[i]
       /\ strength' = updateStrengthUI(history[i], currentPool)
       /\ strengthOf' = [pw |-> history[i], symbols |-> historyPool[i]]
       /\ latestWrite' = history[i]
  /\ UNCHANGED <<optVars, lengthNumber, lengthRange, lastGenerated, history,
                 frames, alerts, runs, historyPool>>

\* click on a history item's Copy button; copyHandler(true) then hands the
\* field's text to the system clipboard, which is no state of the page
HistoryCopyClick ==
  /\ Event
  /\ \E i \in 1..Len(history) :
       /\ passwordInput' = history[i]
       /\ strength' = updateStrengthUI(history[i], currentPool)
       /\ strengthOf' = [pw |-> history[i], symbols |-> historyPool[i]]
       /\ latestWrite' = history[i]
  /\ UNCHANGED <<optVars, lengthNumber, lengthRange, lastGenerated, history,
                 frames, alerts, runs, historyPool>>

\* a checkbox is clicked
OptionClick ==
  /\ Event
  /\ \E k \in 1..5 : ToggleOption(k)
  /\ UNCHANGED <<lengthNumber, lengthRange, passwordInput, lastGenerated,
                 history, strength, frames, alerts, runs, historyPool,
                 strengthOf, latestWrite>>

\* the user edits the number field; no handler runs before its change event
LengthNumberEdit ==
  /\ Event
  /\ \E text \in NumberTexts : lengthNumber' = text
  /\ UNCHANGED <<optVars, lengthRange, passwordInput, lastGenerated, history,
                 strength, frames, alerts, runs, historyPool,
                 strengthOf, latestWrite>>

\* the number field's change handler
LengthNumberChange ==
  /\ Event
  /\ LET v == MathMax(Num(6),
                      MathMin(Num(64), Or(parseInt(lengthNumber), Num(16))))
     IN  lengthNumber' = toText(v) /\ lengthRange' = toText(v)
  /\ UNCHANGED <<optVars, passwordInput, lastGenerated, history, strength,
                 frames, alerts, runs, historyPool, strengthOf,
                 latestWrite>>

\* the slider's input handler
LengthRangeInput ==
  /\ Event
  /\ \E text \in RangeTexts : lengthRange' = text /\ lengthNumber' = text
  /\ UNCHANGED <<optVars, passwordInput, lastGenerated, history, strength,
                 frames, alerts, runs, historyPool, strengthOf,
                 latestWrite>>

Init ==
  /\ cryptoAvailable \in BOOLEAN
  /\ RngIdle
  /\ optUpper \in BOOLEAN /\ optLower \in BOOLEAN /\ optNumbers \in BOOLEAN
  /\ optSymbols \in BOOLEAN /\ optExclude \in BOOLEAN
  /\ InitUi
  /\ PlainIdle

Next ==
  \/ DOMContentLoaded
  \/ GenerateClick
  \/ RegenerateClick
  \/ HistoryItemClick
  \/ HistoryCopyClick
  \/ OptionClick
  \/ LengthNumberEdit
  \/ LengthNumberChange
  \/ LengthRangeInput
  \/ AnimationFrame

Spec == Init /\ [][Next]_vars

(***************************************************************************)
(* Claims about the page, under Spec.                                      *)
(***************************************************************************)

\* a step that is a run of generateHandler: at init, on Generate / Enter,
\* on Regenerate
GenerateStep == runs' = runs + 1

\* the category the thresholds 28, 40, 60, 80 give L * log2(P)
CategoryOf(L, P) ==
  LET x == PowCapped(P, L) IN
  CASE BelowPow2(x, 28) -> "Very weak"
    [] ~BelowPow2(x, 28) /\ BelowPow2(x, 40) -> "Weak"
    [] ~BelowPow2(x, 40) /\ BelowPow2(x, 60) -> "Moderate"
    [] ~BelowPow2(x, 60) /\ BelowPow2(x, 80) -> "Strong"
    [] ~BelowPow2(x, 80) -> "Very strong"

\* C6: the category displayed for a generated password of length L drawn
\* from a pool of P distinct symbols is the one the ascending thresholds
\* 28, 40, 60, 80 give bits = L * log2(P); classes {lower, digits} with
\* L = 10 give P = 36 and Moderate.
C6_CategoryByThresholds ==
  [][(GenerateStep /\ alerts' = alerts) =>
       /\ strength'.shown
       /\ strength'.label =
            CategoryOf(Len(lastGenerated'), DistinctSymbols(currentPool))
       /\ (/\ optLower /\ optNumbers /\ ~optUpper /\ ~optSymbols
           /\ ~optExclude /\ Len(lastGenerated') = 10)
            => /\ DistinctSymbols(currentPool) = 36
               /\ strength'.label = "Moderate"]_vars

\* ten characters generated from lower-case letters and digits, displayed
\* as Moderate
C6_Witness ==
  /\ optLower /\ optNumbers /\ ~optUpper /\ ~optSymbols /\ ~optExclude
  /\ Len(lastGenerated) = 10
  /\ strengthOf.pw = lastGenerated
  /\ strength.bits = [L |-> 10, P |-> 36]
  /\ strength.label = "Moderate"

\* C7: whenever a strength is displayed for a password (freshly generated,
\* or selected or copied from the history list), the entropy is the
\* password's length times log2 of the number of distinct symbols of the
\* pool that password was drawn from.
C7_EntropyOfPoolDrawnFrom ==
  strength.shown =>
    strength.bits = [L |-> Len(strengthOf.pw), P |-> strengthOf.symbols]

C10_LatestWriteShown ==
  (uiPc = "ready" /\ frames = <<>>) => passwordInput = latestWrite

(***************************************************************************)
(* Claims about buildCharPool and generatePlain, under SpecPlain.          *)
(***************************************************************************)
NoClassEnabled == ~optUpper /\ ~optLower /\ ~optNumbers /\ ~optSymbols

\* C4: generatePlain fails with EmptyPool ('No character sets selected') if
\* and only if all four character classes are disabled, whatever the
\* exclude-ambiguous flag; with a class enabled the pool is non-empty.
C4_EmptyPoolIffNoClass ==
  /\ plainPc \in {"returned", "thrown"} =>
       ((plainPc = "thrown"
           /\ plainResult.error = "No character sets selected")
         <=> NoClassEnabled)
  /\ ~NoClassEnabled => Len(currentPool) > 0

\* a call that failed with every class off and exclude-ambiguous on
C4_Witness ==
  /\ plainPc = "thrown"
  /\ plainResult.error = "No character sets selected"
  /\ NoClassEnabled
  /\ optExclude

PoolChars == {currentPool[i] : i \in 1..Len(currentPool)}

CharsOf(str) == {str[i] : i \in 1..Len(str)}

\* C9: for every non-empty pool and every length n >= 0, generatePlain(n)
\* returns exactly n characters, each a character of the pool built from the
\* options at the call: none of a disabled class, and none of O, 0, I, l
\* when exclude-ambiguous is on.
C9_GeneratePlainShape ==
  plainPc = "returned" =>
    LET pw == plainResult.value IN
    /\ Len(pw) = plainLength
    /\ \A i \in 1..Len(pw) :
         /\ pw[i] \in PoolChars
         /\ ~optUpper => pw[i] \notin CharsOf(CHAR_upper)
         /\ ~optLower => pw[i] \notin CharsOf(CHAR_lower)
         /\ ~optNumbers => pw[i] \notin CharsOf(CHAR_numbers)
         /\ ~optSymbols => pw[i] \notin CharsOf(CHAR_symbols)
         /\ optExclude => pw[i] \notin {"O", "0", "I", "l"}

\* a call that returned six characters with a character repeated
C9_Witness ==
  /\ plainPc = "returned"
  /\ plainLength = 6
  /\ Len(plainResult.value) = 6
  /\ optExclude /\ ~optUpper
  /\ \E i, j \in 1..6 : i # j /\ plainResult.value[i] = plainResult.value[j]

(***************************************************************************)
(* A long session on the page: enough runs of generateHandler to fill the  *)
(* history list and push past its capacity, with the one class that is on  *)
(* switched off and on again between runs.                                 *)
(***************************************************************************)
InitHistory ==
  /\ cryptoAvailable \in BOOLEAN
  /\ RngIdle
  /\ optUpper = FALSE /\ optLower = TRUE /\ optNumbers = FALSE
  /\ optSymbols = FALSE /\ optExclude \in BOOLEAN
  /\ InitUi
  /\ PlainIdle

\* an event or an animation frame of the long session is handled
HistoryEvent ==
  /\ uiPc = "ready"
  /\ steps < MaxHistorySteps
  /\ steps' = steps + 1
  /\ UNCHANGED <<cryptoAvailable, rngVars, plainVars, uiPc>>

\* the Enter key: generateHandler(false); the model's budget of pending
\* animations
EnterKeydown ==
  /\ HistoryEvent
  /\ Len(frames) < MaxPending
  /\ \E seed \in Seeds : generateHandler(FALSE, seed)
  /\ UNCHANGED optVars

\* click on Regenerate: generateHandler(true)
RegenerateAgain ==
  /\ HistoryEvent
  /\ \E seed \in Seeds : generateHandler(TRUE, seed)
  /\ UNCHANGED optVars

\* the 'lower' checkbox is clicked
LowerClick ==
  /\ HistoryEvent
  /\ ToggleOption(2)
  /\ UNCHANGED <<lengthNumber, lengthRange, passwordInput, lastGenerated,
                 history, strength, frames, alerts, runs, historyPool,
                 strengthOf, latestWrite>>

\* the frame at which every pending animation has run its duration
LastFrame ==
  /\ HistoryEvent
  /\ frames # <<>>
  /\ LET at == [i \in 1..Len(frames) |-> Later(frames[i], 700)] IN
     /\ passwordInput' = frameText(at[Len(at)], 0)
     /\ frames' = SelectSeq(at, Running)
  /\ UNCHANGED <<optVars, lengthNumber, lengthRange, lastGenerated, history,
                 strength, alerts, runs, historyPool, strengthOf,
                 latestWrite>>

NextHistory ==
  \/ DOMContentLoaded
  \/ EnterKeydown
  \/ RegenerateAgain
  \/ LowerClick
  \/ LastFrame

SpecHistory == InitHistory /\ [][NextHistory]_vars

(***************************************************************************)
(* Claims about a failed run of generateHandler, under SpecHistory.        *)
(***************************************************************************)

\* C11: a run of generateHandler with no character class enabled (EmptyPool)
\* raises exactly one alert and is not run again, and leaves lastGenerated,
\* the history list and the displayed password as they were and starts no
\* scramble animation; and the history list never holds more than 8 entries,
\* whatever the sequence of operations.
C11_FailedRunLeavesState ==
  [][/\ (GenerateStep /\ currentPool = <<>>) =>
          /\ alerts' = alerts + 1
          /\ runs' = runs + 1
          /\ lastGenerated' = lastGenerated
          /\ history' = history
          /\ passwordInput' = passwordInput
          /\ frames' = frames
     /\ Len(history) <= 8
     /\ Len(history') <= 8]_vars

\* one run out of ten failed, with the history list full, a password
\* displayed and an animation pending
C11_Witness ==
  /\ currentPool = <<>>
  /\ alerts = 1
  /\ runs = 10
  /\ Len(history) = 8
  /\ frames # <<>>
  /\ passwordInput = lastGenerated
  /\ lastGenerated = history[1]

====
